---- MODULE Spec2Model ----
(***************************************************************************)
(* Model of TopologyRunnerMixin (ingestion/api/topology_runner.py): the    *)
(* depth-first, generator-based traversal of a service topology and the    *)
(* create / patch / skip decision taken for every request (sink_request,   *)
(* yield_and_update_context).  The generators are modelled as a small-step *)
(* machine that only moves while the consumer is pulling.                  *)
(***************************************************************************)
EXTENDS Integers, Sequences, FiniteSets, TLC

\* ------------------------------------------------------------------ bounds
\* candidates a node producer may yield
MaxCand == 2
\* requests a stage transform may yield for one candidate
MaxReq == 2
\* outcomes a post-process hook may yield
MaxHookOut == 1
\* the names under one scope that the remote store may already list: the
\* first candidate of a scope may be known to the store, later ones are new
ListedNames == {1}

\* the retry budget of the acknowledgement loop (tries = 3)
AckTries == 3

\* ------------------------------------------------------------ value domains
NoSlot == "none"
Slots == {"database_service", "tags", "database", "table_data"}

NoneV == [k |-> "none"]
NameV(n) == [k |-> "name", n |-> n]
ObjV(r) == [k |-> "obj", r |-> r]

\* a falsy sourceHash (None or empty)
NoHash == <<>>

\* the two states of a candidate's content: as the source has it now, and as
\* the remote store may still have it
NewDesc == "new"
OldDesc == "old"

NoEntity == [exists |-> FALSE]

\* Either(left, right) as built by the stage transforms
NoRight == [k |-> "none"]
NoneRequest == [isNone |-> TRUE]
Either(l, r) == [isNone |-> FALSE, left |-> l, right |-> r]

\* __dict__ of a create request: sourceHash is a field only of the request
\* types that declare it
CreateDict(n, d, hs) ==
    IF hs THEN [name |-> n, description |-> d, sourceHash |-> NoHash]
          ELSE [name |-> n, description |-> d]
CreateRequest(n, d, hs) == [k |-> "create", d |-> CreateDict(n, d, hs)]
AddLineageRequest(from) == [k |-> "lineage", fromEntity |-> [name |-> from]]
OMetaTagAndClassification(n) == [k |-> "tag", name |-> n]
OMetaCustomProperties(n) == [k |-> "custom", name |-> n]
PatchRequest(orig, new) == [k |-> "patch", original_entity |-> orig, new_entity |-> new]

RequestKinds == {"create", "createNoHash", "lineage", "tag", "custom",
                 "left", "neither", "none"}

\* the request a stage transform builds for candidate c
BuildRequest(kind, c) ==
    CASE kind = "create" -> Either(FALSE, CreateRequest(c, NewDesc, TRUE))
      [] kind = "createNoHash" -> Either(FALSE, CreateRequest(c, NewDesc, FALSE))
      [] kind = "lineage" -> Either(FALSE, AddLineageRequest(c))
      [] kind = "tag" -> Either(FALSE, OMetaTagAndClassification(c))
      [] kind = "custom" -> Either(FALSE, OMetaCustomProperties(c))
      [] kind = "left" -> Either(TRUE, NoRight)
      [] kind = "neither" -> Either(FALSE, NoRight)
      [] OTHER -> NoneRequest

\* ---------------------------------------------------------------- topology
\* NodeStage with its declared defaults; emits / maxReq bound what the stage
\* transform (an external collaborator) may yield
DefaultStage ==
    [type_ |-> "Table", processor |-> "yield_table", context |-> NoSlot,
     consumer |-> <<>>, nullable |-> FALSE, must_return |-> FALSE,
     cache_entities |-> FALSE, use_cache |-> FALSE, clear_context |-> FALSE,
     overwrite |-> TRUE, emits |-> {"create"}, maxReq |-> 1]

ServiceStage ==
    [DefaultStage EXCEPT !.type_ = "DatabaseService",
                         !.processor = "yield_create_request_database_service",
                         !.context = "database_service", !.overwrite = FALSE,
                         !.must_return = TRUE, !.cache_entities = TRUE]

TagStage(clear) ==
    [DefaultStage EXCEPT !.type_ = "Tag", !.processor = "yield_tag",
                         !.context = "tags", !.nullable = TRUE,
                         !.clear_context = clear, !.emits = {"tag"}]

DatabaseStage ==
    [DefaultStage EXCEPT !.type_ = "Database", !.processor = "yield_database",
                         !.context = "database",
                         !.consumer = <<"database_service">>,
                         !.use_cache = TRUE]

PipelineStage ==
    [DefaultStage EXCEPT !.type_ = "Pipeline", !.processor = "yield_pipeline"]

\* TopologyNode: producer, stages, children, post_process; maxCand and
\* mayBeNone bound what the producer may return
Node(stages, children, hooks, maxCand, mayBeNone) ==
    [producer |-> "get_entities", stages |-> stages, children |-> children,
     post_process |-> hooks, maxCand |-> maxCand, mayBeNone |-> mayBeNone]

Hooks == <<"yield_view_lineage", "mark_tables_as_deleted">>

\* the services the root producer may yield
ServiceNames == {1, 2}

\* the traversal topology: a service with two child nodes
TraversalTopologies ==
    { [root |-> Node(<<TagStage(clear),
                       [ServiceStage EXCEPT !.emits = {"create", "left", "neither"}]>>,
                     <<"database", "pipeline">>,
                     Hooks, Cardinality(ServiceNames), FALSE),
       database |-> Node(<<[DatabaseStage EXCEPT !.emits = {"create", "left", "neither"},
                                                 !.maxReq = MaxReq]>>,
                         <<>>, <<>>, MaxCand, FALSE),
       pipeline |-> Node(<<PipelineStage>>, <<>>, <<>>, 1, TRUE)]
      : clear \in BOOLEAN }

\* the dispatch topologies: one service, one child stage with every
\* combination of flags, receiving every kind of request
DispatchStages ==
    { [DefaultStage EXCEPT !.type_ = "Database", !.processor = "yield_database",
                           !.context = ctx, !.consumer = <<"database_service">>,
                           !.nullable = nl, !.must_return = mr, !.use_cache = uc,
                           !.overwrite = ow, !.emits = RequestKinds]
      : ctx \in {NoSlot, "database"}, nl \in BOOLEAN, mr \in BOOLEAN,
        uc \in BOOLEAN, ow \in BOOLEAN }

DispatchTopologies ==
    { [root |-> Node(<<[TagStage(FALSE) EXCEPT !.emits = {}], ServiceStage>>,
                     <<"database", "pipeline">>, Hooks, 1, FALSE),
       database |-> Node(<<st>>, <<>>, <<>>, 1, FALSE),
       pipeline |-> Node(<<PipelineStage>>, <<>>, <<>>, 0, TRUE)]
      : st \in DispatchStages }

\* the table the Unity Catalog client lists as number c
TableInfo(c) == [k |-> "table", name |-> c, comment |-> <<"comment", c>>]

\* the Unity Catalog topology: a service, its tables (produced by
\* get_tables_name_and_type, transformed by yield_table), and a node whose
\* producer may return None although it has a post-process hook
UnityTopologies ==
    { [root |-> Node(<<[ServiceStage EXCEPT !.cache_entities = FALSE]>>,
                     <<"table", "pipeline">>, <<>>, 1, FALSE),
       table |-> [Node(<<[DefaultStage EXCEPT !.maxReq = 2]>>, <<>>, <<>>,
                       MaxCand, FALSE)
                     EXCEPT !.producer = "get_tables_name_and_type"],
       pipeline |-> Node(<<PipelineStage>>, <<>>, <<"mark_tables_as_deleted">>,
                         1, TRUE)] }

\* get_topology_root
TopologyRoot == <<"root">>

\* ------------------------------------------------------------------- state
VARIABLES
    topology,   \* the ServiceTopology of the source (static for a run)
    force,      \* metadata.config.forceEntityOverwriting
    stack,      \* the active process_nodes generators, innermost last
    sr,         \* locals of the sink_request call in progress (or last finished)
    context,    \* TopologyContext: slot -> value
    cache,      \* TopologyRunnerMixin.cache: type -> (fqn -> sourceHash)
    mode,       \* idle | running | yielded | stopped | done | raised
    out,        \* the element last handed to the consumer
    exc,        \* the exception that ended the traversal, if any
    lastList    \* the last list_all_entities call of this runner: its entity type
                \* and filter, the cache keys this runner has stored so far
                \* (keys) and those it was last listed without a sourceHash (bare)

vars == <<topology, force, stack, sr, context, cache, mode, out, exc, lastList>>

EntityTypes == {"DatabaseService", "Database", "DatabaseSchema", "StoredProcedure",
                "Table", "Tag", "Pipeline"}

\* ----------------------------------------------------- external collaborators
\* generate_source_hash: a deterministic digest of the request's own fields,
\* the sourceHash field excluded
generate_source_hash(d) == <<d.name, d.description>>

\* what the remote store holds under a name, when it holds it: the entity as
\* last written from the old content, with its server-assigned fields
StoredEntity(type, fqn) ==
    [exists |-> TRUE,
     d |-> [id |-> "server-id", fullyQualifiedName |-> fqn, name |-> fqn[Len(fqn)],
            description |-> OldDesc, owner |-> "server-owner",
            sourceHash |-> generate_source_hash([name |-> fqn[Len(fqn)],
                                                 description |-> OldDesc])]]

\* metadata.get_by_name: the entity, or None (absent, or not yet visible)
GetByNameResults(type, fqn) == {NoEntity, StoredEntity(type, fqn)}

\* TopologyContext.fqn_from_stage: the identifiers set in the consumer slots,
\* in nesting order, then the leaf name
RECURSIVE ContextNames(_, _)
ContextNames(ctx, consumer) ==
    IF consumer = <<>> THEN <<>>
    ELSE (IF ctx[Head(consumer)].k = "name" THEN <<ctx[Head(consumer)].n>> ELSE <<>>)
         \o ContextNames(ctx, Tail(consumer))

fqn_from_stage(ctx, stage, entity_name) ==
    ContextNames(ctx, stage.consumer) \o <<entity_name>>

\* TopologyContext.update_context_value / update_context_name / clear_stage
update_context_value(ctx, stage, value) ==
    IF stage.context = NoSlot THEN ctx ELSE [ctx EXCEPT ![stage.context] = value]

update_context_name(ctx, stage, right) ==
    update_context_value(ctx, stage, NameV(right.name))

clear_stage(ctx, stage) ==
    IF stage.context = NoSlot THEN ctx ELSE [ctx EXCEPT ![stage.context] = NoneV]

\* ------------------------------------------------------------ pure helpers
\* a merge in which the original's fields win over the update's
CopyUpdateOriginalWins(orig, update) ==
    [f \in (DOMAIN orig) \cup (DOMAIN update) |->
        IF f \in DOMAIN orig THEN orig[f] ELSE update[f]]

\* pydantic copy(update=...): the update's fields over the original's
CopyUpdate(orig, update) ==
    [f \in (DOMAIN orig) \cup (DOMAIN update) |->
        IF f \in DOMAIN update THEN update[f] ELSE orig[f]]

create_patch_request(original_entity, create_request) ==
    PatchRequest(original_entity,
                 [exists |-> TRUE, d |-> CopyUpdate(original_entity.d, create_request.d)])

_is_force_overwrite_enabled == force

_get_child_nodes(node) == node.children

Top == stack[Len(stack)]
TopNode == topology[Top.nodes[Top.ni]]
TopStage == TopNode.stages[Top.si]

\* one process_nodes generator: its position (nodes, ni, pc, cand, si, ri, hi,
\* li) and what it did for the current candidate / node:
\*   ran  = the stages started for the candidate, in order
\*   kids = how often the children were processed for the candidate
\*   set  = the slot values the candidate's stages wrote
\*   verr = a ValueError was caught in the running stage
\*   hlog = the hooks of the node that finished, each with how it ended
\*   hy   = the elements the hooks of the node yielded
\*   seen = the nodes of the list started so far
NoneSet == [s \in Slots |-> NoneV]
Frame(nodes) ==
    [nodes |-> nodes, ni |-> 1, pc |-> "node", cand |-> 0, si |-> 1, ri |-> 0,
     hi |-> 1, ho |-> 0, li |-> 1, ran |-> <<>>, kids |-> 0, set |-> NoneSet,
     verr |-> FALSE, hlog |-> <<>>, hy |-> 0, seen |-> <<>>]

SetTop(f) == stack' = [stack EXCEPT ![Len(stack)] = f]

\* the locals of one sink_request call, with what it did so far:
\* arg = the request as received, found = the existence lookup of a
\* non-overwrite stage returned an entity, lookups = get_by_name calls,
\* polls = those made by the acknowledgement loop, yielded = elements handed
\* out, cmp = result of the cache comparison, ctxset = context slot written
IdleSr ==
    [pc |-> "idle", stage |-> DefaultStage, req |-> NoneRequest, arg |-> NoneRequest,
     right |-> NoRight, found |-> FALSE, polls |-> 0,
     entity |-> NoEntity, fqn |-> <<>>, same_fingerprint |-> FALSE, hash |-> NoHash,
     tries |-> AckTries, lookups |-> 0, yielded |-> 0, cmp |-> "none",
     err |-> "none", ctxset |-> FALSE]

EmptyDict == [x \in {} |-> NoHash]
DictPut(dict, key, v) ==
    [x \in (DOMAIN dict) \cup {key} |-> IF x = key THEN v ELSE dict[x]]
\* dict.get(key): None when absent
DictGet(dict, key) == IF key \in DOMAIN dict THEN dict[key] ELSE NoHash

\* a traversal that runs ahead of its consumer
RunningAhead == mode \in {"running", "yielded"} /\ stack # <<>>

\* the generators execute only while the consumer is waiting for an element
Running == mode = "running" /\ stack # <<>>

NoList == [entity |-> "none", keys |-> {}, bare |-> {}]

\* -------------------------------------------------------------------- Init
InitCommon ==
    /\ stack = <<Frame(TopologyRoot)>>
    /\ sr = IdleSr
    /\ context = [s \in Slots |-> NoneV]
    /\ cache = [t \in EntityTypes |-> EmptyDict]
    /\ mode = "idle"
    /\ out = NoneRequest
    /\ exc = "none"
    /\ lastList = NoList

Init ==
    /\ \/ topology \in TraversalTopologies /\ force = FALSE
       \/ topology \in DispatchTopologies /\ force \in BOOLEAN
       \/ topology \in UnityTopologies /\ force = FALSE
    /\ InitCommon

\* ---------------------------------------------------------------- consumer
\* the consumer asks the generator for its next element
Pull ==
    /\ mode \in {"idle", "yielded"}
    /\ mode' = "running"
    /\ out' = NoneRequest
    /\ UNCHANGED <<topology, force, stack, sr, context, cache, exc, lastList>>

\* the consumer stops pulling
Stop ==
    /\ mode \in {"idle", "yielded"}
    /\ mode' = "stopped"
    /\ UNCHANGED <<topology, force, stack, sr, context, cache, out, exc, lastList>>

\* once a run is over, another runner instance is constructed in the same
\* process: it has its own context and its own generators, but `cache` is an
\* attribute of the class, created once when the class body is executed, and
\* self.cache[...] of every instance is that one dictionary (further runners
\* are explored for the topologies with a single service candidate)
NewRunner ==
    /\ mode \in {"done", "stopped", "raised"}
    /\ topology \in DispatchTopologies
    /\ stack' = <<Frame(TopologyRoot)>>
    /\ sr' = IdleSr
    /\ context' = [s \in Slots |-> NoneV]
    /\ mode' = "idle"
    /\ out' = NoneRequest
    /\ exc' = "none"
    /\ lastList' = NoList
    /\ UNCHANGED <<topology, force, cache>>

\* ------------------------------------------------------------ process_nodes
\* a loop over the producer's result without the `or []`: None is not iterable
StartNodeNoneIsError ==
    /\ Running /\ Top.pc = "node" /\ Top.ni <= Len(Top.nodes)
    /\ \E none \in (IF TopNode.mayBeNone THEN BOOLEAN ELSE {FALSE}) :
          IF none
          THEN /\ mode' = "raised" /\ exc' = "TypeError"
               /\ UNCHANGED stack
          ELSE /\ SetTop([Top EXCEPT !.pc = "pull",
                                    !.cand = 0, !.hi = 1, !.ho = 0, !.ran = <<>>,
                                    !.kids = 0, !.set = NoneSet, !.hlog = <<>>, !.hy = 0,
                                    !.seen = Append(@, Top.nodes[Top.ni])])
               /\ UNCHANGED <<mode, exc>>
    /\ UNCHANGED <<topology, force, sr, context, cache, out, lastList>>

\* for node in nodes: fetch the producer and the children, call the producer
StartNode ==
    /\ Running /\ Top.pc = "node" /\ Top.ni <= Len(Top.nodes)
    /\ \E none \in (IF TopNode.mayBeNone THEN BOOLEAN ELSE {FALSE}) :
          SetTop([Top EXCEPT !.pc = IF none THEN "post" ELSE "pull",
                             !.cand = 0, !.hi = 1, !.ho = 0, !.ran = <<>>,
                             !.kids = 0, !.set = NoneSet, !.hlog = <<>>, !.hy = 0,
                             !.seen = Append(@, Top.nodes[Top.ni])])
    /\ UNCHANGED <<topology, force, sr, context, cache, mode, out, exc, lastList>>

\* a table producer that yields its candidate without storing the table
get_tables_name_and_typeNoStore(ctx, c) == ctx

\* UnitycatalogSource.get_tables_name_and_type, for the table it yields next:
\* self.context.table_data = table, then yield (tables that are filtered out
\* or that fail are not yielded and leave the context as it is)
get_tables_name_and_type(ctx, c) ==
    [ctx EXCEPT !.table_data = ObjV(TableInfo(c))]

\* the list of nodes is exhausted: process_nodes returns to its caller
ReturnNodes ==
    /\ Running /\ Top.pc = "node" /\ Top.ni > Len(Top.nodes)
    /\ IF Len(stack) = 1
         THEN /\ stack' = <<>>
              /\ mode' = "done"
         ELSE /\ stack' = [SubSeq(stack, 1, Len(stack) - 1)
                              EXCEPT ![Len(stack) - 1].pc = "pull",
                                     ![Len(stack) - 1].kids = @ + 1]
              /\ mode' = mode
    /\ UNCHANGED <<topology, force, sr, context, cache, out, exc, lastList>>

\* for node_entity in node_producer() or []: the producer yields its next
\* candidate, or is exhausted
NextCandidate ==
    /\ Running /\ Top.pc = "pull"
    /\ \/ /\ Top.cand < TopNode.maxCand
          /\ SetTop([Top EXCEPT !.cand = Top.cand + 1, !.pc = "stage", !.si = 1,
                                !.ran = <<>>, !.kids = 0, !.set = NoneSet])
          /\ context' = IF TopNode.producer = "get_tables_name_and_type"
                        THEN get_tables_name_and_type(context, Top.cand + 1)
                        ELSE context
       \/ /\ SetTop([Top EXCEPT !.pc = "post", !.hi = 1, !.ho = 0])
          /\ context' = context
    /\ UNCHANGED <<topology, force, sr, cache, mode, out, exc, lastList>>

\* for stage in node.stages: call the stage transform on the candidate
StartStage ==
    /\ Running /\ Top.pc = "stage" /\ Top.si <= Len(TopNode.stages)
    /\ SetTop([Top EXCEPT !.pc = "req", !.ri = 0, !.verr = FALSE,
                          !.ran = Append(@, Top.si)])
    /\ UNCHANGED <<topology, force, sr, context, cache, mode, out, exc, lastList>>

\* every stage of the candidate has run
EndStages ==
    /\ Running /\ Top.pc = "stage" /\ Top.si > Len(TopNode.stages)
    /\ SetTop([Top EXCEPT !.pc = "clear"])
    /\ UNCHANGED <<topology, force, sr, context, cache, mode, out, exc, lastList>>

\* a loop over the stages that clears nothing
ClearContextNever ==
    /\ Running /\ Top.pc = "clear"
    /\ context' = context
    /\ SetTop([Top EXCEPT !.pc = "recurse"])
    /\ UNCHANGED <<topology, force, sr, cache, mode, out, exc, lastList>>

\* Once all the stages are done, clear the slots of the stages that ask for it
ClearContext ==
    /\ Running /\ Top.pc = "clear"
    /\ context' = [s \in Slots |->
                      IF \E i \in 1..Len(TopNode.stages) :
                            /\ TopNode.stages[i].clear_context
                            /\ TopNode.stages[i].context = s
                      THEN NoneV ELSE context[s]]
    /\ SetTop([Top EXCEPT !.pc = "recurse"])
    /\ UNCHANGED <<topology, force, sr, cache, mode, out, exc, lastList>>

\* a candidate whose children are not processed
ProcessChildrenSkipped ==
    /\ Running /\ Top.pc = "recurse"
    /\ SetTop([Top EXCEPT !.pc = "pull"])
    /\ UNCHANGED <<topology, force, sr, context, cache, mode, out, exc, lastList>>

\* yield from self.process_nodes(child_nodes)
ProcessChildren ==
    /\ Running /\ Top.pc = "recurse"
    /\ stack' = Append([stack EXCEPT ![Len(stack)].pc = "children"],
                       Frame(_get_child_nodes(TopNode)))
    /\ UNCHANGED <<topology, force, sr, context, cache, mode, out, exc, lastList>>

\* ------------------------------------------------------ _run_node_post_process
\* a post-process hook yields one more element
HookYield ==
    /\ Running /\ Top.pc = "post" /\ Top.hi <= Len(TopNode.post_process)
    /\ Top.ho < MaxHookOut
    /\ SetTop([Top EXCEPT !.ho = Top.ho + 1, !.hy = @ + 1])
    /\ mode' = "yielded"
    /\ out' = Either(FALSE, AddLineageRequest(Top.ho + 1))
    /\ UNCHANGED <<topology, force, sr, context, cache, exc, lastList>>

\* a post-process hook is exhausted
HookEnd ==
    /\ Running /\ Top.pc = "post" /\ Top.hi <= Len(TopNode.post_process)
    /\ SetTop([Top EXCEPT !.hi = Top.hi + 1, !.ho = 0,
                          !.hlog = Append(@, <<Top.hi, "ended">>)])
    /\ UNCHANGED <<topology, force, sr, context, cache, mode, out, exc, lastList>>

\* a failing hook that takes the remaining hooks of the node with it
HookRaiseSkipsRest ==
    /\ Running /\ Top.pc = "post" /\ Top.hi <= Len(TopNode.post_process)
    /\ SetTop([Top EXCEPT !.hi = Len(TopNode.post_process) + 1, !.ho = 0,
                          !.hlog = Append(@, <<Top.hi, "raised">>)])
    /\ UNCHANGED <<topology, force, sr, context, cache, mode, out, exc, lastList>>

\* a post-process hook raises: except Exception, log, go on with the next one
HookRaise ==
    /\ Running /\ Top.pc = "post" /\ Top.hi <= Len(TopNode.post_process)
    /\ SetTop([Top EXCEPT !.hi = Top.hi + 1, !.ho = 0,
                          !.hlog = Append(@, <<Top.hi, "raised">>)])
    /\ UNCHANGED <<topology, force, sr, context, cache, mode, out, exc, lastList>>

\* the node is finished: on to the next node of the list
EndNode ==
    /\ Running /\ Top.pc = "post" /\ Top.hi > Len(TopNode.post_process)
    /\ SetTop([Top EXCEPT !.ni = Top.ni + 1, !.pc = "node"])
    /\ UNCHANGED <<topology, force, sr, context, cache, mode, out, exc, lastList>>

\* ------------------------------------------------------------ _process_stage
\* an exception that nothing catches ends every generator of the traversal
Raise(e) == mode' = "raised" /\ exc' = e

\* UnitycatalogSource.yield_table on the candidate c: the table is fetched by
\* the full name of context.table_data, the request takes its name from the
\* candidate and its description from the fetched table; an exception inside
\* the try block, before or after the request was yielded, gives a failure
\* record
yield_table(ctx, c, ok) ==
    IF ok THEN Either(FALSE, CreateRequest(c, ctx.table_data.r.comment, TRUE))
          ELSE Either(TRUE, NoRight)

\* for entity_request in stage_fn(node_entity) or []: the transform yields
\* its next request and sink_request is called on it
NextRequest ==
    /\ Running /\ Top.pc = "req" /\ Top.ri < TopStage.maxReq
    /\ IF TopStage.processor = "yield_table"
         THEN \/ /\ context.table_data.k = "obj"
                 /\ Top.ri > 0 => ~sr.arg.left
                 /\ \E ok \in (IF Top.ri = 0 THEN BOOLEAN ELSE {FALSE}) :
                       LET er == yield_table(context, Top.cand, ok)
                       IN sr' = [IdleSr EXCEPT !.pc = "enter", !.stage = TopStage,
                                               !.req = er, !.arg = er]
                 /\ SetTop([Top EXCEPT !.pc = "sink", !.ri = Top.ri + 1])
                 /\ UNCHANGED <<mode, exc>>
              \/ \* client.tables.get(...) is outside the try block
                 /\ Top.ri = 0
                 /\ Raise(IF context.table_data.k = "obj" THEN "Exception"
                                                         ELSE "AttributeError")
                 /\ UNCHANGED <<stack, sr>>
         ELSE /\ \E kind \in TopStage.emits :
                    sr' = [IdleSr EXCEPT !.pc = "enter", !.stage = TopStage,
                                         !.req = BuildRequest(kind, Top.cand),
                                         !.arg = BuildRequest(kind, Top.cand)]
              /\ SetTop([Top EXCEPT !.pc = "sink", !.ri = Top.ri + 1])
              /\ UNCHANGED <<mode, exc>>
    /\ UNCHANGED <<topology, force, context, cache, out, lastList>>

\* every stage of the child nodes, whether it opted into the cache or not
RECURSIVE CacheStagesOfAll(_, _)
CacheStagesOfAll(topo, children) ==
    IF children = <<>> THEN <<>>
    ELSE topo[Head(children)].stages \o CacheStagesOfAll(topo, Tail(children))

\* the child stages that opted into the cache, in the order _init_cache_dict
\* visits them
RECURSIVE CacheStagesOf(_, _)
CacheStagesOf(topo, children) ==
    IF children = <<>> THEN <<>>
    ELSE SelectSeq(topo[Head(children)].stages, LAMBDA st : st.use_cache)
         \o CacheStagesOf(topo, Tail(children))

CacheTargets == CacheStagesOf(topology, _get_child_nodes(TopNode))

\* the transform is exhausted (or returned nothing): leave the loop; a stage
\* flagged cache_entities goes on to _init_cache_dict
EndRequests ==
    /\ Running /\ Top.pc = "req"
    /\ TopStage.processor = "yield_table" => Top.ri > 0
    /\ IF TopStage.cache_entities
         THEN SetTop([Top EXCEPT !.pc = "cache", !.li = 1])
         ELSE SetTop([Top EXCEPT !.pc = "stage", !.si = Top.si + 1])
    /\ sr' = IdleSr
    /\ UNCHANGED <<topology, force, context, cache, mode, out, exc, lastList>>

\* get_fqn_source_hash_dict: the filter of the bulk listing
ListParams(parent_type, child_type, entity_fqn) ==
    IF parent_type \in {"Database", "DatabaseSchema"}
    THEN IF child_type = "StoredProcedure"
         THEN [key |-> "databaseSchema", fqn |-> entity_fqn]
         ELSE [key |-> "database", fqn |-> entity_fqn]
    ELSE [key |-> "service", fqn |-> entity_fqn]

\* metadata.list_all_entities(child_type, params, fields=["sourceHash"]): the
\* entities the store lists under the scope, as name -> sourceHash; an entity
\* written before fingerprinting has none
ListedHashes(n) ==
    {NoHash} \cup {generate_source_hash([name |-> n, description |-> d])
                      : d \in {NewDesc, OldDesc}}

ListResults(scope) ==
    UNION { {f \in [names -> UNION {ListedHashes(n) : n \in names}] :
                \A n \in names : f[n] \in ListedHashes(n)}
            : names \in SUBSET ListedNames }

\* for entity in entities_list: if entity.sourceHash: cache[child_type][fqn] = it
RECURSIVE StoreHashes(_, _, _, _)
StoreHashes(dict, listing, scope, names) ==
    IF names = {} THEN dict
    ELSE LET n == CHOOSE x \in names : TRUE
             next == IF listing[n] # NoHash
                     THEN DictPut(dict, scope \o <<n>>, listing[n])
                     ELSE dict
         IN StoreHashes(next, listing, scope, names \ {n})

\* the cache keys of the entities a listing returned without (bare) or with
\* a sourceHash
ListedKeys(type, scope, listing, bare) ==
    {<<type, scope \o <<n>>>> :
        n \in {x \in DOMAIN listing : (listing[x] = NoHash) = bare}}

\* the name _init_cache_dict reads from the slot of the caching stage
SlotName(ctx, slot) == IF ctx[slot].k = "name" THEN ctx[slot].n ELSE 0

\* _init_cache_dict, one child stage at a time: a bulk listing merged into
\* the cache of the child type
InitCacheStep ==
    /\ Running /\ Top.pc = "cache" /\ Top.li <= Len(CacheTargets)
    /\ IF TopStage.context = NoSlot
         THEN /\ Raise("KeyError")
              /\ UNCHANGED <<stack, cache, lastList>>
         ELSE LET child == CacheTargets[Top.li]
                  scope == fqn_from_stage(context, TopStage,
                                          SlotName(context, TopStage.context))
              IN \E listing \in ListResults(scope) :
                    /\ cache' = [cache EXCEPT ![child.type_] =
                                    StoreHashes(@, listing, scope, DOMAIN listing)]
                    /\ lastList' = [entity |-> child.type_,
                                    params |-> ListParams(TopStage.type_, child.type_, scope),
                                    keys |-> lastList.keys \cup
                                             ListedKeys(child.type_, scope, listing, FALSE),
                                    bare |-> (lastList.bare \
                                              ListedKeys(child.type_, scope, listing, FALSE))
                                             \cup
                                             ListedKeys(child.type_, scope, listing, TRUE)]
                    /\ SetTop([Top EXCEPT !.li = Top.li + 1])
                    /\ UNCHANGED <<mode, exc>>
    /\ UNCHANGED <<topology, force, sr, context, out>>

\* every child stage was visited: _process_stage returns
EndInitCache ==
    /\ Running /\ Top.pc = "cache" /\ Top.li > Len(CacheTargets)
    /\ SetTop([Top EXCEPT !.pc = "stage", !.si = Top.si + 1])
    /\ UNCHANGED <<topology, force, sr, context, cache, mode, out, exc, lastList>>

\* -------------------------------------------------------------- sink_request
\* hand an element to the consumer: the generators are suspended at the yield
\* a yield that hands the item out without suspending the generator
YieldWithoutSuspending(item) == mode' = mode /\ out' = item

\* yield: the generator is suspended with the item in the consumer's hands
Yield(item) == mode' = "yielded" /\ out' = item

\* the call is over: back to the loop over the transform's requests
BackToStage == SetTop([Top EXCEPT !.pc = "req"])

\* the slot was written for the current candidate
BackToStageSet(slot, value) ==
    SetTop([Top EXCEPT !.pc = "req",
                       !.set = IF slot = NoSlot THEN @ ELSE [@ EXCEPT ![slot] = value]])

\* a stage loop without the try / except
HandleStageErrorNoCatch(e) ==
    /\ Raise(e)
    /\ UNCHANGED stack

\* _process_stage: try: yield from self.sink_request(...) except ValueError:
\* log it and go on with the next request; any other exception propagates
HandleStageError(e) ==
    IF e = "ValueError"
    THEN /\ SetTop([Top EXCEPT !.pc = "req", !.verr = TRUE])
         /\ UNCHANGED <<mode, exc>>
    ELSE /\ Raise(e)
         /\ UNCHANGED stack

Dispatching(pc) == Running /\ Top.pc = "sink" /\ sr.pc = pc

\* a sink_request that sends every create request through the generic
\* dispatch, bound to a slot or not
SinkRequestIgnoresContext ==
    /\ Dispatching("enter")
    /\ LET st == sr.stage
           er == sr.req
       IN IF er.isNone
          THEN IF ~st.nullable
               THEN \* entity_request.left on None
                    /\ HandleStageError("AttributeError")
                    /\ sr' = [sr EXCEPT !.pc = "done", !.err = "AttributeError"]
                    /\ UNCHANGED out
               ELSE /\ sr' = [sr EXCEPT !.pc = "done"]
                    /\ BackToStage
                    /\ UNCHANGED <<mode, out, exc>>
          ELSE IF ~st.nullable /\ er.right = NoRight /\ ~er.left
          THEN \* raise ValueError("Value unexpectedly None")
               /\ HandleStageError("ValueError")
               /\ sr' = [sr EXCEPT !.pc = "done", !.err = "ValueError"]
               /\ UNCHANGED out
          ELSE IF er.right # NoRight /\ er.right.k = "create"
          THEN /\ sr' = [sr EXCEPT !.pc = "yauc"]
               /\ UNCHANGED <<stack, mode, out, exc>>
          ELSE /\ Yield(er)
               /\ sr' = [sr EXCEPT !.yielded = sr.yielded + 1,
                                   !.pc = IF er.right = NoRight \/ st.context = NoSlot
                                          THEN "end"
                                          ELSE IF er.right.k = "lineage"
                                          THEN "lineage" ELSE "value"]
               /\ UNCHANGED <<stack, exc>>
    /\ UNCHANGED <<topology, force, context, cache, lastList>>

\* sink_request up to its first yield: validation, then dispatch on the type
\* of the right value
SinkRequest ==
    /\ Dispatching("enter")
    /\ LET st == sr.stage
           er == sr.req
       IN IF er.isNone
          THEN IF ~st.nullable
               THEN \* entity_request.left on None
                    /\ HandleStageError("AttributeError")
                    /\ sr' = [sr EXCEPT !.pc = "done", !.err = "AttributeError"]
                    /\ UNCHANGED out
               ELSE /\ sr' = [sr EXCEPT !.pc = "done"]
                    /\ BackToStage
                    /\ UNCHANGED <<mode, out, exc>>
          ELSE IF ~st.nullable /\ er.right = NoRight /\ ~er.left
          THEN \* raise ValueError("Value unexpectedly None")
               /\ HandleStageError("ValueError")
               /\ sr' = [sr EXCEPT !.pc = "done", !.err = "ValueError"]
               /\ UNCHANGED out
          ELSE IF er.right # NoRight /\ st.context # NoSlot /\ er.right.k = "create"
          THEN /\ sr' = [sr EXCEPT !.pc = "yauc"]
               /\ UNCHANGED <<stack, mode, out, exc>>
          ELSE /\ Yield(er)
               /\ sr' = [sr EXCEPT !.yielded = sr.yielded + 1,
                                   !.pc = IF er.right = NoRight \/ st.context = NoSlot
                                          THEN "end"
                                          ELSE IF er.right.k = "lineage"
                                          THEN "lineage" ELSE "value"]
               /\ UNCHANGED <<stack, exc>>
    /\ UNCHANGED <<topology, force, context, cache, lastList>>

\* a plain yield that hands the same request out a second time
SinkEndYieldsAgain ==
    /\ Dispatching("end")
    /\ IF sr.yielded < 2
         THEN /\ Yield(sr.req)
              /\ sr' = [sr EXCEPT !.yielded = sr.yielded + 1]
              /\ UNCHANGED stack
         ELSE /\ sr' = [sr EXCEPT !.pc = "done"]
              /\ BackToStage
              /\ UNCHANGED <<mode, out>>
    /\ UNCHANGED <<topology, force, context, cache, exc, lastList>>

\* a plain yield followed by a write of the stage's slot
SinkEndUpdatesContext ==
    /\ Dispatching("end")
    /\ context' = update_context_value(context, sr.stage, ObjV(sr.req.right))
    /\ sr' = [sr EXCEPT !.pc = "done", !.ctxset = TRUE]
    /\ BackToStage
    /\ UNCHANGED <<topology, force, cache, mode, out, exc, lastList>>

\* resumed after a plain yield: the generator is exhausted
SinkEnd ==
    /\ Dispatching("end")
    /\ sr' = [sr EXCEPT !.pc = "done"]
    /\ BackToStage
    /\ UNCHANGED <<topology, force, context, cache, mode, out, exc, lastList>>

\* a lineage variant that stores the request as the tag variant does
LineageUpdateStoresRequest ==
    /\ Dispatching("lineage")
    /\ context' = update_context_value(context, sr.stage, ObjV(sr.req.right))
    /\ sr' = [sr EXCEPT !.pc = "done", !.ctxset = TRUE]
    /\ BackToStageSet(sr.stage.context, ObjV(sr.req.right))
    /\ UNCHANGED <<topology, force, cache, mode, out, exc, lastList>>

\* AddLineageRequest: after the yield, the slot gets the edge's fromEntity
LineageUpdate ==
    /\ Dispatching("lineage")
    /\ context' = update_context_name(context, sr.stage, sr.req.right.fromEntity)
    /\ sr' = [sr EXCEPT !.pc = "done", !.ctxset = TRUE]
    /\ BackToStageSet(sr.stage.context, NameV(sr.req.right.fromEntity.name))
    /\ UNCHANGED <<topology, force, cache, mode, out, exc, lastList>>

\* OMetaTagAndClassification / OMetaCustomProperties: after the yield, the
\* slot gets the whole right value
ValueUpdate ==
    /\ Dispatching("value")
    /\ context' = update_context_value(context, sr.stage, ObjV(sr.req.right))
    /\ sr' = [sr EXCEPT !.pc = "done", !.ctxset = TRUE]
    /\ BackToStageSet(sr.stage.context, ObjV(sr.req.right))
    /\ UNCHANGED <<topology, force, cache, mode, out, exc, lastList>>

\* ------------------------------------------------- yield_and_update_context
\* an existence lookup that does not look at the force-overwrite flag
ExistenceLookupIgnoresForce(stage) == ~stage.overwrite

\* if not stage.overwrite and not self._is_force_overwrite_enabled()
ExistenceLookup(stage) == ~stage.overwrite /\ ~_is_force_overwrite_enabled

\* the cache consulted whether or not an entity was already resolved
CacheConsultedAlways(entity, stage) == stage.use_cache

\* if entity is None and stage.use_cache
CacheConsulted(entity, stage) == ~entity.exists /\ stage.use_cache

\* a comparison that never finds the fingerprint unchanged
CompareHashNeverSame(cached, hash) ==
    IF cached = NoHash THEN "miss" ELSE "differ"

\* a comparison that takes a missing entry for a changed one
CompareHashMissAsDiffer(cached, hash) ==
    IF cached = hash THEN "same" ELSE "differ"

\* a comparison that takes a changed entry for a missing one
CompareHashDifferAsMiss(cached, hash) ==
    IF cached = hash THEN "same" ELSE "miss"

\* the comparison of the cached sourceHash with the request's
CompareHash(cached, hash) ==
    IF cached = NoHash THEN "miss"
    ELSE IF cached # hash THEN "differ" ELSE "same"

\* the generic handler up to its yield: the existence lookup of a stage that
\* must not overwrite, the fingerprint, the cache comparison with the fetch
\* for a patch, and the yield of the request unless it is unchanged
YaucDecide ==
    /\ Dispatching("yauc")
    /\ LET st == sr.stage
           right0 == sr.req.right
           fqn == fqn_from_stage(context, st, right0.d.name)
       IN \E e1 \in (IF ExistenceLookup(st) THEN GetByNameResults(st.type_, fqn)
                                           ELSE {NoEntity}) :
          LET hasHash == "sourceHash" \in DOMAIN right0.d
              h == IF hasHash THEN generate_source_hash(right0.d) ELSE NoHash
              right1 == IF hasHash THEN [right0 EXCEPT !.d.sourceHash = h] ELSE right0
              cmp == IF CacheConsulted(e1, st)
                     THEN CompareHash(DictGet(cache[st.type_], fqn), h)
                     ELSE "none"
          IN \E e2 \in (IF cmp = "differ" THEN GetByNameResults(st.type_, fqn)
                                          ELSE {e1}) :
             LET right2 == IF cmp = "differ" /\ e2.exists
                           THEN create_patch_request(e2, right1)
                           ELSE right1
                 same == e1.exists \/ cmp = "same"
                 er == [sr.req EXCEPT !.right = right2]
             IN /\ sr' = [sr EXCEPT !.pc = "ack", !.entity = e2, !.fqn = fqn,
                                    !.same_fingerprint = same, !.hash = h,
                                    !.right = right1, !.req = er, !.cmp = cmp,
                                    !.tries = AckTries, !.found = e1.exists,
                                    !.lookups = (IF ExistenceLookup(st) THEN 1 ELSE 0)
                                                + (IF cmp = "differ" THEN 1 ELSE 0),
                                    !.yielded = sr.yielded + (IF same THEN 0 ELSE 1)]
                /\ IF same THEN UNCHANGED <<mode, out>> ELSE Yield(er)
    /\ UNCHANGED <<topology, force, stack, context, cache, exc, lastList>>

\* a polling loop that does not ask whether the stage wants an acknowledgement
AckPollAnyStage ==
    /\ Dispatching("ack")
    /\ ~sr.entity.exists /\ sr.tries > 0
    /\ \E e \in GetByNameResults(sr.stage.type_, sr.fqn) :
          sr' = [sr EXCEPT !.entity = e, !.tries = sr.tries - 1,
                           !.lookups = sr.lookups + 1, !.polls = sr.polls + 1]
    /\ UNCHANGED <<topology, force, stack, context, cache, mode, out, exc, lastList>>

\* a polling loop that never uses up its tries
AckPollForever ==
    /\ Dispatching("ack")
    /\ sr.stage.must_return /\ ~sr.entity.exists /\ sr.tries > 0
    /\ \E e \in GetByNameResults(sr.stage.type_, sr.fqn) :
          sr' = [sr EXCEPT !.entity = e, !.lookups = (sr.polls + 1) % AckTries,
                           !.polls = (sr.polls + 1) % AckTries]
    /\ UNCHANGED <<topology, force, stack, context, cache, mode, out, exc, lastList>>

\* while not entity and tries > 0: one more get_by_name
AckPoll ==
    /\ Dispatching("ack")
    /\ sr.stage.must_return /\ ~sr.entity.exists /\ sr.tries > 0
    /\ \E e \in GetByNameResults(sr.stage.type_, sr.fqn) :
          sr' = [sr EXCEPT !.entity = e, !.tries = sr.tries - 1,
                           !.lookups = sr.lookups + 1, !.polls = sr.polls + 1]
    /\ UNCHANGED <<topology, force, stack, context, cache, mode, out, exc, lastList>>

\* an acknowledgement loop that gives up without raising
AckFailSilent ==
    /\ Dispatching("ack")
    /\ sr.stage.must_return /\ ~sr.entity.exists /\ sr.tries = 0
    /\ sr' = [sr EXCEPT !.pc = "done"]
    /\ BackToStage
    /\ UNCHANGED <<topology, force, context, cache, mode, out, exc, lastList>>

\* the retries are used up and there is still no entity
AckFail ==
    /\ Dispatching("ack")
    /\ sr.stage.must_return /\ ~sr.entity.exists /\ sr.tries = 0
    /\ HandleStageError("MissingExpectedEntityAckException")
    /\ sr' = [sr EXCEPT !.pc = "done", !.err = "MissingExpectedEntityAckException"]
    /\ UNCHANGED <<topology, force, context, cache, out, lastList>>

\* a dispatch that writes the slot only for the requests it has yielded
UpdateContextOnlyWhenYielded ==
    /\ Dispatching("ack")
    /\ ~sr.stage.must_return \/ sr.entity.exists
    /\ context' = IF sr.same_fingerprint THEN context
                  ELSE update_context_name(context, sr.stage, sr.right.d)
    /\ sr' = [sr EXCEPT !.pc = "done", !.ctxset = ~sr.same_fingerprint]
    /\ IF sr.same_fingerprint THEN BackToStage
       ELSE BackToStageSet(sr.stage.context, NameV(sr.right.d.name))
    /\ UNCHANGED <<topology, force, cache, mode, out, exc, lastList>>

\* self.context.update_context_name(stage=stage, right=right)
UpdateContext ==
    /\ Dispatching("ack")
    /\ ~sr.stage.must_return \/ sr.entity.exists
    /\ context' = update_context_name(context, sr.stage, sr.right.d)
    /\ sr' = [sr EXCEPT !.pc = "done", !.ctxset = TRUE]
    /\ BackToStageSet(sr.stage.context, NameV(sr.right.d.name))
    /\ UNCHANGED <<topology, force, cache, mode, out, exc, lastList>>

\* -------------------------------------------------------------------- Next
Next ==
    \/ Pull
    \/ Stop
    \/ NewRunner
    \/ StartNode
    \/ ReturnNodes
    \/ NextCandidate
    \/ StartStage
    \/ EndStages
    \/ ClearContext
    \/ ProcessChildren
    \/ HookYield
    \/ HookEnd
    \/ HookRaise
    \/ EndNode
    \/ NextRequest
    \/ EndRequests
    \/ InitCacheStep
    \/ EndInitCache
    \/ SinkRequest
    \/ SinkEnd
    \/ LineageUpdate
    \/ ValueUpdate
    \/ YaucDecide
    \/ AckPoll
    \/ AckFail
    \/ UpdateContext

Spec == Init /\ [][Next]_vars

\* the steps of one runner whose consumer keeps pulling
OneRunner == Next /\ mode' \notin {"idle", "stopped"}

\* the interpreter keeps running a generator that was asked for its next
\* element, and the consumer asks for the next element after each one
Fairness == WF_vars(OneRunner)

\* one run of the traversal topology without clear_context, or of a dispatch
\* topology
LiveInit ==
    /\ Init
    /\ topology \in TraversalTopologies => ~topology.root.stages[1].clear_context

LiveSpec == LiveInit /\ [][OneRunner]_vars /\ Fairness

\* ===================================================================== claims
\* the generic handler has taken its create / patch / skip decision for sr.req
Decided == sr.right # NoRight

CachedHash == DictGet(cache[sr.stage.type_], sr.fqn)

\* the entity the patch fetch returned: the acknowledgement loop only polls
\* when there was none
FetchedEntity == IF sr.polls = 0 THEN sr.entity ELSE NoEntity

\* C1: a request of a caching stage whose computed fingerprint equals the one
\* cached under (stage type, fqn) is never yielded by sink_request
C1_UnchangedFingerprintYieldsNothing ==
    (Decided /\ sr.stage.use_cache /\ sr.hash # NoHash /\ CachedHash = sr.hash)
        => (sr.yielded = 0 /\ mode # "yielded")

C1_Witness ==
    /\ Decided /\ sr.stage.use_cache /\ sr.hash # NoHash /\ CachedHash = sr.hash
    /\ sr.cmp = "same" /\ sr.pc = "done" /\ sr.err = "none"

\* C2 as stated: every create request of a caching stage with no cache entry
\* for its fqn is yielded once, as a create request carrying its fingerprint
C2_AsClaimed ==
    (/\ sr.pc = "done" /\ sr.err = "none" /\ sr.stage.use_cache
     /\ ~sr.arg.isNone /\ sr.arg.right.k = "create"
     /\ fqn_from_stage(context, sr.stage, sr.arg.right.d.name)
            \notin DOMAIN cache[sr.stage.type_])
        => /\ sr.yielded = 1
           /\ sr.req.right.k = "create"
           /\ "sourceHash" \in DOMAIN sr.req.right.d
           /\ sr.req.right.d.sourceHash = generate_source_hash(sr.arg.right.d)

\* C2 amended: in the generic handler of a context-bound caching stage, when
\* the existence lookup resolved no entity and the cache has no entry for the
\* fqn, exactly one element is yielded: the create request itself, with the
\* computed fingerprint in sourceHash when the request type has that field
C2_CacheMissYieldsCreate ==
    (Decided /\ sr.stage.use_cache /\ ~sr.found
     /\ sr.fqn \notin DOMAIN cache[sr.stage.type_])
        => /\ sr.yielded = 1
           /\ sr.req.right.k = "create"
           /\ sr.req.left = sr.arg.left
           /\ sr.req.right.d.name = sr.arg.right.d.name
           /\ sr.req.right.d.description = sr.arg.right.d.description
           /\ DOMAIN sr.req.right.d = DOMAIN sr.arg.right.d
           /\ "sourceHash" \in DOMAIN sr.arg.right.d
                 => sr.req.right.d.sourceHash = generate_source_hash(sr.arg.right.d)
           /\ mode = "yielded" => out = sr.req

C2_Witness ==
    /\ Decided /\ sr.stage.use_cache /\ ~sr.found
    /\ sr.fqn \notin DOMAIN cache[sr.stage.type_]
    /\ mode = "yielded" /\ out.right.k = "create"
    /\ out.right.d.sourceHash = generate_source_hash(sr.arg.right.d)

\* C3 as stated: with a cached fingerprint that differs from the request's,
\* the remote entity is fetched and the one element yielded is a patch
C3_AsClaimed ==
    (Decided /\ sr.stage.use_cache /\ CachedHash # NoHash /\ CachedHash # sr.hash)
        => /\ sr.lookups >= 1
           /\ sr.yielded = 1
           /\ sr.req.right.k = "patch"

\* C3 amended: when the cache is consulted (the existence lookup resolved no
\* entity) and holds a different fingerprint, the remote entity is fetched by
\* name once and one element is yielded: a patch against the fetched entity if
\* the fetch returned one, the create request if it returned nothing
C3_CacheDifferYieldsPatchIfFetched ==
    (Decided /\ sr.stage.use_cache /\ ~sr.found
     /\ CachedHash # NoHash /\ CachedHash # sr.hash)
        => /\ sr.lookups - sr.polls = 1 + (IF ExistenceLookup(sr.stage) THEN 1 ELSE 0)
           /\ sr.yielded = 1
           /\ IF FetchedEntity.exists
              THEN /\ sr.req.right.k = "patch"
                   /\ sr.req.right.original_entity = FetchedEntity
                   /\ FetchedEntity.d.fullyQualifiedName = sr.fqn
              ELSE sr.req.right.k = "create"
           /\ mode = "yielded" => out = sr.req

C3_Witness ==
    /\ Decided /\ sr.stage.use_cache /\ ~sr.found
    /\ CachedHash # NoHash /\ CachedHash # sr.hash
    /\ mode = "yielded" /\ out.right.k = "patch"

\* C4: the patch of the default create_patch_request keeps the fetched entity
\* as original_entity, and its new_entity has every field of the create
\* request with the request's value (the new fingerprint included) and every
\* other field of the original with the original's value
C4_PatchIsShallowMerge ==
    (Decided /\ sr.req.right.k = "patch")
        => LET p == sr.req.right
               o == p.original_entity.d
               n == p.new_entity.d
               r == sr.right.d
           IN /\ p.original_entity = StoredEntity(sr.stage.type_, sr.fqn)
              /\ DOMAIN n = (DOMAIN o) \cup (DOMAIN r)
              /\ \A f \in DOMAIN r : n[f] = r[f]
              /\ \A f \in (DOMAIN o) \ (DOMAIN r) : n[f] = o[f]
              /\ "sourceHash" \in DOMAIN r => n.sourceHash = sr.hash

C4_Witness ==
    /\ Decided /\ sr.req.right.k = "patch" /\ mode = "yielded"
    /\ sr.req.right.new_entity.d.description = NewDesc
    /\ sr.req.right.original_entity.d.description = OldDesc
    /\ sr.req.right.new_entity.d.id = sr.req.right.original_entity.d.id

\* C5: when the existence lookup of a stage with overwrite = false (force
\* overwrite off) finds the entity, nothing is yielded, no other lookup is
\* made, and the call ends with the stage's context slot updated
C5_ExistingEntityIsNotOverwritten ==
    (Decided /\ ~sr.stage.overwrite /\ ~force /\ sr.found)
        => /\ sr.yielded = 0
           /\ mode = "running"
           /\ sr.lookups = 1
           /\ sr.err = "none"
           /\ sr.pc = "done" =>
                 /\ sr.ctxset
                 /\ context[sr.stage.context] = NameV(sr.arg.right.d.name)
                 /\ Top.set[sr.stage.context] = NameV(sr.arg.right.d.name)

C5_Witness ==
    /\ Decided /\ ~sr.stage.overwrite /\ ~force /\ sr.found
    /\ sr.stage.use_cache /\ CachedHash # NoHash /\ CachedHash # sr.hash
    /\ sr.pc = "done" /\ sr.ctxset

\* C6: the acknowledgement loop of a must_return stage polls at most three
\* times and only while no entity is resolved; three empty polls end in
\* MissingExpectedEntityAckException, never in a silent completion, and then
\* the context slot is left as it was
C6_AckState ==
    /\ sr.polls <= 3
    /\ sr.polls > 0 => (Decided /\ sr.stage.must_return)
    /\ (sr.polls > 0 /\ sr.entity.exists) => sr.err = "none"
    /\ sr.err = "MissingExpectedEntityAckException"
          => /\ sr.polls = 3 /\ ~sr.entity.exists /\ ~sr.ctxset
             /\ mode = "raised" /\ exc = "MissingExpectedEntityAckException"
    /\ (Decided /\ sr.pc = "done" /\ sr.stage.must_return /\ ~sr.entity.exists)
          => sr.err = "MissingExpectedEntityAckException"

C6_AckStep ==
    /\ (sr.pc = "ack" /\ sr.entity.exists) => sr'.polls = sr.polls
    /\ (sr.pc = "ack" /\ sr'.err = "MissingExpectedEntityAckException")
          => context' = context

C6_AckBoundedAndNotSilent == [](C6_AckState) /\ [][C6_AckStep]_vars

C6_Witness ==
    /\ sr.err = "MissingExpectedEntityAckException" /\ sr.polls = 3
    /\ sr.yielded = 1 /\ mode = "raised"

\* ------------------------------------------------ traversal: C7 .. C10
\* the frames of the process_nodes generators that are working on a node
Frames == {i \in 1..Len(stack) : stack[i].ni <= Len(stack[i].nodes)}
NodeOf(i) == topology[stack[i].nodes[stack[i].ni]]
AllStages(node) == [j \in 1..Len(node.stages) |-> j]

\* the slot is one that a stage of the node declared clear_context for
SlotClears(node, s) ==
    \E j \in 1..Len(node.stages) :
        node.stages[j].clear_context /\ node.stages[j].context = s

\* the slots a stage of candidate stack[i] has written
Written(i) == {s \in Slots : stack[i].cand > 0 /\ stack[i].set[s] # NoneV}

InStages(f) == f.pc \in {"stage", "req", "sink", "cache", "clear"}
Iterated(f) == f.pc \in {"pull", "post"} /\ f.cand > 0

\* the claim as stated: the value stays visible while the descendants of the
\* candidate are processed, and a clear_context slot is absent afterwards
C7_AsClaimed ==
    \A i \in Frames : \A s \in Written(i) :
        /\ (InStages(stack[i]) \/ stack[i].pc = "children")
               => context[s] = stack[i].set[s]
        /\ (Iterated(stack[i]) /\ SlotClears(NodeOf(i), s)) => context[s] = NoneV

\* C7: a value that a stage set for a candidate is visible to the later
\* stages of that candidate; the descendants processed for the candidate see
\* it only if the slot is not one declared clear_context, because those slots
\* are emptied between the candidate's last stage and its children; a
\* clear_context slot is still empty when the candidate's iteration is over
C7_ContextVisibleUntilCleared ==
    \A i \in Frames : \A s \in Written(i) :
        /\ InStages(stack[i]) => context[s] = stack[i].set[s]
        /\ stack[i].pc \in {"recurse", "children"}
               => context[s] = IF SlotClears(NodeOf(i), s) THEN NoneV
                               ELSE stack[i].set[s]
        /\ (Iterated(stack[i]) /\ SlotClears(NodeOf(i), s)) => context[s] = NoneV

\* a stage of a child node is dispatching while the parent candidate has
\* written both a clear_context slot and a slot that is kept
C7_Witness ==
    /\ Len(stack) = 2 /\ mode = "running"
    /\ stack[1].pc = "children" /\ Top.pc = "sink" /\ sr.pc = "yauc"
    /\ SlotClears(NodeOf(1), "tags")
    /\ {"tags", "database_service"} \subseteq Written(1)
    /\ context["tags"] = NoneV

\* C8: the traversal is depth-first and sequential: only the innermost
\* process_nodes runs and every caller is suspended at its recursion into the
\* children of its current candidate; nodes are taken in declared order; the
\* stages of a candidate run in declared order and all of them have run
\* before its children are processed; the children are processed exactly
\* once before the next candidate is pulled
C8_DepthFirstSequential ==
    /\ \A i \in 1..Len(stack) :
          LET f == stack[i]
          IN /\ i < Len(stack) => f.pc = "children" /\ i \in Frames
             /\ i > 1 => f.nodes = _get_child_nodes(NodeOf(i - 1))
             /\ f.seen = SubSeq(f.nodes, 1, IF f.pc = "node" THEN f.ni - 1 ELSE f.ni)
    /\ \A i \in Frames :
          LET f == stack[i]
              all == AllStages(NodeOf(i))
          IN /\ f.pc = "stage" => f.ran = SubSeq(all, 1, f.si - 1) /\ f.kids = 0
             /\ f.pc \in {"req", "sink", "cache"}
                   => f.ran = SubSeq(all, 1, f.si) /\ f.kids = 0
             /\ f.pc \in {"clear", "recurse", "children"} => f.ran = all /\ f.kids = 0
             /\ Iterated(f) => f.ran = all /\ f.kids = 1

\* the second candidate of the root node is in its stages after the subtree
\* of the first one was processed, and a child node has been reached again
C8_Witness ==
    /\ Len(stack) = 2 /\ stack[1].cand = 2 /\ stack[1].pc = "children"
    /\ Top.seen = <<"database", "pipeline">> /\ Top.pc = "pull"

C9_HookState ==
    \A i \in Frames :
        LET f == stack[i]
            hooks == NodeOf(i).post_process
        IN /\ Len(f.hlog) <= Len(hooks)
           /\ \A j \in 1..Len(f.hlog) : f.hlog[j][1] = j
           /\ f.pc = "post" => /\ i = Len(stack)
                               /\ f.cand > 0 => f.kids = 1
                               /\ f.hi = Len(f.hlog) + 1
           /\ ~(f.pc \in {"post", "node"}) => f.hlog = <<>> /\ f.hy = 0

\* the step in which a process_nodes frame leaves a node behind
C9_NodeLeft ==
    /\ Running /\ Top.pc = "post" /\ Len(stack') = Len(stack)
    /\ Top'.pc = "node"

\* the step in which a hook of the running node fails
C9_HookFails ==
    /\ Running /\ Top.pc = "post" /\ Len(stack') = Len(stack)
    /\ Len(Top'.hlog) = Len(Top.hlog) + 1
    /\ Top'.hlog[Len(Top'.hlog)][2] = "raised"

C9_HookStep ==
    /\ C9_HookFails => /\ Top'.hy = Top.hy /\ Top'.pc = "post"
                       /\ mode' = mode /\ exc' = exc
    /\ C9_NodeLeft => Len(Top.hlog) = Len(TopNode.post_process)

\* C9: the hooks of a node run once its producer is exhausted and the
\* subtree of its last candidate is finished, one after the other in declared
\* order; a hook that raises takes nothing back of what it yielded, raises
\* nothing to the caller, and the node is left only when every hook has run
C9_HooksRunAfterCandidatesAndSurviveFailure ==
    [](C9_HookState) /\ [][C9_HookStep]_vars

\* the first hook yielded and then failed, the second one yielded and ended,
\* and the traversal went on to the end of the node list
C9_Witness ==
    /\ Len(stack) = 1 /\ Top.pc = "node" /\ Top.ni = 2 /\ Top.cand > 0
    /\ Top.hlog = <<<<1, "raised">>, <<2, "ended">>>> /\ Top.hy = 2

\* the request handed to sink_request has neither variant populated
Neither(er) == ~er.isNone /\ er.right = NoRight /\ ~er.left

\* C10: a request for which sink_request raises a value error yields
\* nothing, leaves no exception behind and returns the stage to its loop over
\* the transform's requests, where the next request is dispatched; and that
\* is what happens to a request with neither variant in a non-nullable stage
C10_ValueErrorSkipsOneRequest ==
    /\ sr.err = "ValueError"
          => /\ sr.yielded = 0 /\ out = NoneRequest
             /\ mode = "running" /\ exc = "none"
             /\ Top.pc = "req" /\ Top.verr /\ ~sr.ctxset
    /\ (sr.pc \notin {"idle", "enter"} /\ Neither(sr.arg) /\ ~sr.stage.nullable)
          => sr.err = "ValueError"

\* after a request of the stage was skipped for a value error, the next
\* request of the same transform was dispatched and yielded
C10_Witness ==
    /\ Len(stack) = 2 /\ Top.verr /\ Top.ri = 2
    /\ sr.pc = "done" /\ sr.err = "none" /\ sr.yielded = 1 /\ sr.ctxset

\* ------------------------------------------------ failures: C11 .. C13
\* the traversal was ended by an exception that no generator caught
Aborted == mode = "raised"

\* C11: a failure met while processing a candidate, the missing
\* acknowledgement included, stops at most the subtree of that candidate:
\* the traversal is never ended by it, so that the sibling candidates and the
\* rest of the run are still processed
C11_AsClaimed == ~Aborted

\* the first of two service candidates was never acknowledged: the exception
\* left process_nodes and the second candidate is not pulled any more
C11_Witness ==
    /\ Aborted /\ exc = "MissingExpectedEntityAckException"
    /\ Len(stack) = 1 /\ Top.pc = "sink" /\ Top.cand = 1 /\ TopNode.maxCand = 2
    /\ sr.polls = AckTries /\ sr.yielded = 1

\* sink_request is working on a failure record: left set, right empty
FailureRecord(er) == ~er.isNone /\ er.left /\ er.right = NoRight
SinkingFailure == sr.pc \notin {"idle", "enter"} /\ FailureRecord(sr.arg)

C12_FailureState ==
    SinkingFailure =>
        /\ sr.yielded = 1 /\ sr.req = sr.arg
        /\ mode = "yielded" => out = sr.arg
        /\ sr.lookups = 0 /\ sr.polls = 0 /\ sr.hash = NoHash /\ sr.cmp = "none"
        /\ ~sr.ctxset /\ sr.err = "none"

C12_FailureStep ==
    (mode \in {"running", "yielded"} /\ Top.pc = "sink" /\ FailureRecord(sr.arg))
        => UNCHANGED <<context, cache, lastList>>

\* C12: for a failure record sink_request yields that record as it is,
\* once, and does nothing else: no lookup by name, no fingerprint, no cache
\* comparison, no bulk listing, and neither the Run Context nor the
\* Fingerprint Cache changes while the call lasts, whatever the stage's flags
C12_FailureRecordPassesThrough ==
    [](C12_FailureState) /\ [][C12_FailureStep]_vars

\* a failure record went through a context-bound, caching, acknowledged,
\* non-overwrite stage and the call is over
C12_Witness ==
    /\ SinkingFailure /\ sr.pc = "done" /\ mode = "running"
    /\ sr.stage.context # NoSlot /\ sr.stage.use_cache /\ sr.stage.must_return
    /\ ~sr.stage.overwrite /\ ~sr.stage.nullable /\ ~force

\* C13: one call of sink_request hands out at most one element: none for
\* an absent request, a value error or a suppressed write, and exactly one
\* on every other path that runs to its end
C13_AtMostOneOutcomePerCall ==
    /\ sr.yielded \in {0, 1}
    /\ (sr.pc = "done" /\ sr.err = "none")
          => sr.yielded = IF sr.arg.isNone \/ sr.same_fingerprint THEN 0 ELSE 1
    /\ sr.err # "none"
          => sr.yielded = IF sr.polls > 0 /\ ~sr.same_fingerprint THEN 1 ELSE 0

\* a call that went through the comparison, the fetch and the patch, was
\* resumed after its yield and ended
C13_Witness ==
    /\ sr.pc = "done" /\ sr.err = "none" /\ sr.yielded = 1
    /\ sr.cmp = "differ" /\ sr.req.right.k = "patch" /\ sr.ctxset

\* ------------------------------------------------ the cache: C14 .. C16
EmptyCache == [t \in EntityTypes |-> EmptyDict]

\* the cache comparison of the current call found a fingerprint
CacheHit == sr.cmp \in {"same", "differ"}

\* C14: the Fingerprint Cache is local to a run: a runner starts with an
\* empty cache, and a fingerprint that the decision finds in the cache was
\* stored by a bulk listing of the same runner
C14_AsClaimed ==
    /\ mode = "idle" => cache = EmptyCache
    /\ CacheHit => <<sr.stage.type_, sr.fqn>> \in lastList.keys

\* a second runner suppressed a write because of a fingerprint that only an
\* earlier runner had stored: its own listing did not return the entity
C14_Witness ==
    /\ CacheHit /\ sr.cmp = "same" /\ sr.pc = "done" /\ sr.yielded = 0
    /\ lastList.entity = sr.stage.type_
    /\ <<sr.stage.type_, sr.fqn>> \notin lastList.keys

\* the decision of the current call consulted the cache for an entity that
\* this runner's bulk listing returned without a sourceHash
ListedBare == sr.cmp # "none" /\ <<sr.stage.type_, sr.fqn>> \in lastList.bare

\* C15: the bulk listing stores a fingerprint only for the listed entities
\* that carry one, and a candidate whose remote entity was listed without a
\* fingerprint is not taken for unchanged by the cache comparison
C15_AsClaimed ==
    /\ \A k \in lastList.keys : DictGet(cache[k[1]], k[2]) # NoHash
    /\ ListedBare => sr.cmp # "same"

\* the listing of this runner returned the entity without a fingerprint, the
\* comparison still found the request unchanged and nothing was yielded
C15_Witness ==
    /\ ListedBare /\ sr.cmp = "same" /\ sr.pc = "done" /\ sr.yielded = 0
    /\ lastList.entity = sr.stage.type_ /\ lastList.keys = {}

\* C16: with the force-overwrite flag set no existence lookup is made, also
\* for a stage with overwrite = false: the only lookups by name of the call
\* are the fetch for a patch and the acknowledgement polls, and a write is
\* suppressed only by an identical cached fingerprint
C16_ForceOverwriteSkipsLookup ==
    (force /\ Decided)
        => /\ ~sr.found
           /\ sr.lookups = sr.polls + (IF sr.cmp = "differ" THEN 1 ELSE 0)
           /\ sr.same_fingerprint <=> sr.cmp = "same"
           /\ sr.yielded = IF sr.cmp = "same" THEN 0 ELSE 1

\* under the flag a stage with overwrite = false wrote a request without
\* any lookup, and the call is over
C16_Witness ==
    /\ force /\ Decided /\ ~sr.stage.overwrite /\ ~sr.stage.use_cache
    /\ sr.pc = "done" /\ sr.err = "none" /\ sr.yielded = 1 /\ sr.lookups = 0

\* ------------------------------------------------ the consumer: C17, C18
\* the run is over: the generator is exhausted, or an exception left it
Ended == mode \in {"done", "raised"}

\* C17: with a consumer that keeps pulling every run comes to an end: once
\* started, the traversal is eventually exhausted or ended by an exception,
\* and the acknowledgement loop never makes more than 3 lookups
C17_TraversalTerminates ==
    /\ [](sr.polls <= AckTries)
    /\ (mode = "idle") ~> Ended

\* a traversal over two service candidates with their children and hooks
\* was pulled to exhaustion
C17_Witness ==
    /\ mode = "done" /\ stack = <<>> /\ topology \in TraversalTopologies
    /\ Cardinality(lastList.keys) = 2

\* the generator is not being advanced: not started yet, suspended at a
\* yield, or given up by the consumer
Suspended == mode \in {"idle", "yielded", "stopped"}

\* C18: the traversal is pull-driven: while the generator is suspended at
\* the element it handed out, and for good once the consumer has stopped,
\* the runner does nothing: no candidate, request or hook is taken, no lookup
\* or listing is made, and the Run Context and the Fingerprint Cache stay as
\* they are; a stopped traversal is never resumed
C18_Step ==
    /\ (Suspended /\ mode' # "idle")
          => UNCHANGED <<stack, sr, context, cache, lastList, exc>>
    /\ Suspended => cache' = cache
    /\ mode = "stopped" => mode' \in {"stopped", "idle"}

C18_PullDriven == [][C18_Step]_vars

\* the consumer stopped right after receiving a write that the stage wants
\* acknowledged: no poll was made and the slot was not written
C18_Witness ==
    /\ mode = "stopped" /\ Len(stack) = 2 /\ Top.pc = "sink"
    /\ sr.pc = "ack" /\ sr.stage.must_return /\ ~sr.entity.exists
    /\ sr.yielded = 1 /\ sr.polls = 0 /\ ~sr.ctxset
    /\ context[sr.stage.context] = NoneV

\* ------------------------------------------------ C19, C20
\* the claim as stated: a request found unchanged costs no lookup at all
C19_AsClaimed == sr.cmp = "same" => sr.lookups = 0

\* C19: when the cache comparison finds the fingerprint identical the write
\* is suppressed and no entity is fetched for a patch; the lookups by name of
\* the call are the existence lookup that a stage with overwrite = false
\* made before the comparison (unless force-overwrite is set), and the
\* acknowledgement polls, which a must_return stage makes because no entity
\* was resolved and which no other stage makes
C19_SameFingerprintLookups ==
    sr.cmp = "same"
        => /\ sr.yielded = 0 /\ sr.same_fingerprint
           /\ sr.lookups = (IF ~sr.stage.overwrite /\ ~force THEN 1 ELSE 0) + sr.polls
           /\ ~sr.stage.must_return => sr.polls = 0
           /\ (sr.stage.must_return /\ sr.pc = "done") => sr.polls >= 1

\* a must_return stage found the fingerprint unchanged, yielded nothing and
\* then resolved the entity with its first acknowledgement poll
C19_Witness ==
    /\ sr.cmp = "same" /\ sr.stage.must_return /\ sr.stage.overwrite
    /\ sr.pc = "done" /\ sr.err = "none" /\ sr.yielded = 0
    /\ sr.polls = 1 /\ sr.lookups = 1 /\ sr.entity.exists /\ sr.ctxset

\* the context slots bound to the stages of a node
BoundSlots(node) ==
    {node.stages[j].context : j \in 1..Len(node.stages)} \ {NoSlot}

\* C20: no slot value leaks from one candidate to the next: while the
\* children of a candidate are processed, a slot bound to a stage of the parent
\* node is either empty or holds what a stage wrote for that same candidate
C20_AsClaimed ==
    \A i \in Frames :
        stack[i].pc = "children"
            => \A s \in BoundSlots(NodeOf(i)) :
                  context[s] = NoneV \/ context[s] = stack[i].set[s]

\* the stage of the second service candidate was skipped for a value error
\* and wrote nothing; a child stage is dispatching under the name that the
\* first candidate left in the slot
C20_Witness ==
    /\ Len(stack) = 2 /\ stack[1].pc = "children" /\ stack[1].cand = 2
    /\ stack[1].verr /\ stack[1].set["database_service"] = NoneV
    /\ context["database_service"] = NameV(1)
    /\ Top.pc = "sink" /\ sr.pc = "ack" /\ sr.yielded = 1 /\ sr.fqn = <<1, 1>>

\* ------------------------------------------------ cache population: C21, C22
\* the stages of the children of a node that opted into the cache
OptedIn(node) ==
    {<<c, j>> \in (1..Len(node.children)) \X (1..2) :
        /\ j <= Len(topology[node.children[c]].stages)
        /\ topology[node.children[c]].stages[j].use_cache}

OptedTypes(node) ==
    {topology[node.children[p[1]]].stages[p[2]].type_ : p \in OptedIn(node)}

\* the last stage of the node populates the cache
CachesLast(node) == node.stages[Len(node.stages)].cache_entities

C21_ListState ==
    \A i \in Frames :
        (stack[i].pc \in {"clear", "recurse", "children"} /\ CachesLast(NodeOf(i)))
            => /\ stack[i].li - 1 = Cardinality(OptedIn(NodeOf(i)))
               /\ OptedIn(NodeOf(i)) # {} => lastList.entity \in OptedTypes(NodeOf(i))

C21_ListStep ==
    (Running /\ lastList' # lastList)
        => /\ Top.pc = "cache" /\ TopStage.cache_entities /\ sr = IdleSr
           /\ Len(stack') = Len(stack) /\ Top'.li = Top.li + 1 /\ Top'.pc = "cache"
           /\ lastList'.entity \in OptedTypes(TopNode)

Populated == stack # <<>> /\ Top.pc = "cache" /\ Top.li > 1

\* C22: the scope of the bulk listing is the name that the populating
\* stage has just written to its slot for the same candidate; the listing is
\* never made under the name of an earlier candidate, nor when the stage
\* wrote no name for the candidate
C22_AsClaimed ==
    Populated
        => /\ Top.set[TopStage.context].k = "name"
           /\ lastList.params.fqn =
                 fqn_from_stage(context, TopStage, Top.set[TopStage.context].n)

\* the stage wrote nothing for the second service candidate and the listing
\* was made under the name of the first one
C22_Witness ==
    /\ Populated /\ Top.cand = 2 /\ Top.set[TopStage.context] = NoneV
    /\ context[TopStage.context] = NameV(1)
    /\ lastList.params = [key |-> "service", fqn |-> <<1>>]

\* the request in dispatch is one of the type-specific variants, on a stage
\* bound to a context slot
TypeSpecific ==
    /\ sr.pc \notin {"idle", "enter"}
    /\ sr.stage.context # NoSlot
    /\ ~sr.req.isNone /\ sr.req.right # NoRight
    /\ sr.req.right.k \in {"lineage", "tag", "custom"}

\* C23: a lineage, tag or custom-property request on a context-bound stage
\* is always yielded, unchanged and once, with no fingerprint computed, no
\* cache read, no lookup and no acknowledgement poll; afterwards the slot
\* holds the name of the edge's fromEntity for a lineage request and the
\* whole request object for a tag or custom-property request
C23_TypeSpecificVariants ==
    TypeSpecific
        => /\ sr.yielded = 1 /\ sr.arg = sr.req
           /\ mode = "yielded" => out = sr.req
           /\ sr.hash = NoHash /\ sr.cmp = "none" /\ ~sr.same_fingerprint
           /\ sr.lookups = 0 /\ sr.polls = 0 /\ sr.entity = NoEntity
           /\ sr.err = "none"
           /\ sr.pc \in {"lineage", "value", "done"}
           /\ sr.pc = "lineage" <=> (sr.req.right.k = "lineage" /\ ~sr.ctxset)
           /\ sr.pc = "done"
                => /\ sr.ctxset
                   /\ context[sr.stage.context] =
                         IF sr.req.right.k = "lineage"
                         THEN NameV(sr.req.right.fromEntity.name)
                         ELSE ObjV(sr.req.right)

\* a lineage request has been yielded and the slot holds its fromEntity
C23_Witness ==
    /\ TypeSpecific /\ sr.pc = "done" /\ sr.req.right = AddLineageRequest(1)
    /\ context[sr.stage.context] = NameV(1) /\ sr.yielded = 1

\* the consumer holds an outcome that sink_request has yielded
SinkYielded == mode = "yielded" /\ stack # <<>> /\ Top.pc = "sink"

\* exactly one of left and right is set
OneVariant(er) == ~er.isNone /\ (er.left <=> er.right = NoRight)

\* C24: every outcome that sink_request yields has exactly one variant
\* populated, on nullable stages too
C24_AsClaimed == SinkYielded => OneVariant(out)

\* a nullable stage was handed an outcome with neither variant and
\* sink_request has yielded it to the consumer
C24_Witness ==
    /\ SinkYielded /\ sr.stage.nullable /\ Neither(sr.arg)
    /\ out = sr.arg /\ sr.yielded = 1

\* the traversal was ended by an exception that a stage transform raised
TransformRaised ==
    /\ Aborted /\ exc = "Exception"
    /\ stack # <<>> /\ Top.pc = "req"

\* a post-process hook raises in this step
HookRaises ==
    /\ Running /\ Top.pc = "post" /\ Len(stack') = Len(stack)
    /\ Len(Top'.hlog) = Len(Top.hlog) + 1
    /\ Top'.hlog[Len(Top'.hlog)][2] = "raised"

\* C25: an unexpected exception of a stage transform or of a post-process
\* hook never ends the traversal and is handed to the consumer as a
\* failure record
C25_AsClaimed ==
    /\ [](~TransformRaised)
    /\ [][HookRaises => (mode' = "yielded" /\ FailureRecord(out'))]_vars

\* yield_table raised on the first of two tables before its try block: the
\* exception left every generator, nothing was yielded for it and the second
\* table is never pulled
C25_Witness ==
    /\ TransformRaised /\ TopStage.processor = "yield_table"
    /\ Top.cand = 1 /\ TopNode.maxCand = 2 /\ Top.ri = 0 /\ out = NoneRequest

\* ------------------------------------------------ producers: C26, C30
\* the producer of the node at hand is called and returns None
ProducerNone ==
    /\ Running /\ Top.pc = "node" /\ Top.ni <= Len(Top.nodes)
    /\ Len(stack') = Len(stack) /\ Top'.pc # "pull"

\* a node is past its (empty) loop over the candidates
NoCandidate(i) == stack[i].pc = "post" /\ stack[i].cand = 0

\* C26 as stated: a node whose producer returned no result runs no stage,
\* no child, writes no slot and yields nothing at all
C26_AsClaimed ==
    \A i \in Frames : NoCandidate(i)
        => /\ stack[i].ran = <<>> /\ stack[i].kids = 0 /\ stack[i].set = NoneSet
           /\ stack[i].hy = 0

C26_NoneState ==
    \A i \in Frames : NoCandidate(i)
        => /\ stack[i].ran = <<>> /\ stack[i].kids = 0 /\ stack[i].set = NoneSet
           /\ stack[i].hy <= Len(NodeOf(i).post_process) * MaxHookOut

C26_NoneStep ==
    /\ ProducerNone
          => /\ Top'.pc = "post" /\ Top'.hi = 1 /\ Top'.cand = 0
             /\ UNCHANGED <<sr, context, cache, mode, out, exc, lastList>>
    /\ (Running /\ NoCandidate(Len(stack)))
          => /\ UNCHANGED <<sr, context, cache, exc, lastList>>
             /\ Len(stack') = Len(stack)
             /\ mode' # "raised"
             /\ mode' = "yielded" => Top'.hy = Top.hy + 1
             /\ Top'.ni \in {Top.ni, Top.ni + 1}

\* C26 (amended): when the producer returns None the loop over the
\* candidates is empty and nothing is raised: no stage runs, no child is
\* processed, no slot is written or cleared, no request is dispatched; the
\* post-process hooks of the node still run, so that the node yields what its
\* hooks yield and nothing else, and the traversal goes on with the next node
C26_NoneIsEmpty == [](C26_NoneState) /\ [][C26_NoneStep]_vars

\* the producer of a node with a post-process hook returned None and the
\* hook has yielded an element
C26_Witness ==
    /\ stack # <<>> /\ NoCandidate(Len(stack)) /\ TopNode.mayBeNone
    /\ Top.hy = 1 /\ mode = "yielded" /\ Top.ran = <<>>
    /\ out = Either(FALSE, AddLineageRequest(1))

\* ------------------------------------------------ generic dispatch: C27 .. C29
\* the request in dispatch went to the generic yield_and_update_context
Generic ==
    /\ sr.pc \notin {"idle", "enter"}
    /\ sr.stage.context # NoSlot
    /\ ~sr.arg.isNone /\ sr.arg.right # NoRight /\ sr.arg.right.k = "create"

\* the acknowledgement step is over: not asked for, or an entity was fetched
Acknowledged == ~sr.stage.must_return \/ sr.entity.exists

C27_DoneState ==
    (Generic /\ sr.pc = "done")
        => /\ sr.ctxset <=> sr.err = "none"
           /\ sr.ctxset
                => /\ context[sr.stage.context] = NameV(sr.arg.right.d.name)
                   /\ Acknowledged
                   /\ sr.yielded = IF sr.same_fingerprint THEN 0 ELSE 1
           /\ ~sr.ctxset => sr.err = "MissingExpectedEntityAckException"

C27_WriteStep ==
    (Running /\ Top.pc = "sink" /\ Generic /\ context' # context)
        => /\ sr.pc = "ack" /\ Acknowledged
           /\ sr'.pc = "done" /\ sr'.ctxset

\* C27: every generic dispatch that ends without raising has written the
\* name of the request to the slot of the stage, whether the request was
\* yielded as a create, yielded as a patch, or suppressed (same fingerprint
\* in the cache, or entity found by a stage that does not overwrite); the
\* slot is written in the last step only, once the acknowledgement was
\* obtained or was not asked for
C27_ContextAfterAck == [](C27_DoneState) /\ [][C27_WriteStep]_vars

\* a request suppressed by the fingerprint of the cache has written its slot
C27_Witness ==
    /\ Generic /\ sr.pc = "done" /\ sr.ctxset /\ sr.cmp = "same"
    /\ sr.yielded = 0 /\ context[sr.stage.context] = NameV(sr.arg.right.d.name)

\* the consumer holds a request that the generic dispatch has yielded
Received == Generic /\ mode = "yielded" /\ stack # <<>> /\ Top.pc = "sink"

\* C28 as stated: when the consumer receives the request no acknowledgement
\* lookup was made, the slot was not written, and the slot does not hold the
\* name of the request
C28_AsClaimed ==
    Received
        => /\ sr.polls = 0 /\ ~sr.ctxset
           /\ context[sr.stage.context] # NameV(sr.arg.right.d.name)

C28_ReceivedState ==
    Received
        => /\ sr.pc = "ack" /\ out = sr.req /\ sr.yielded = 1
           /\ ~sr.same_fingerprint
           /\ sr.polls = 0 /\ ~sr.ctxset
           /\ sr.lookups = (IF ExistenceLookup(sr.stage) THEN 1 ELSE 0)
                           + (IF sr.cmp = "differ" THEN 1 ELSE 0)

C28_AfterPullStep ==
    (mode \in {"running", "yielded"} /\ Top.pc = "sink" /\ Generic
        /\ (sr'.polls > sr.polls \/ context' # context))
        => /\ mode = "running" /\ out = NoneRequest
           /\ sr.pc = "ack"
           /\ sr.yielded = IF sr.same_fingerprint THEN 0 ELSE 1

\* C28 (amended): a request that is not suppressed is handed to the
\* consumer before any acknowledgement lookup and before the slot is written
\* for it; the polling and the write happen only once the consumer has
\* pulled again, so that when the consumer receives the request the slot
\* still holds what an earlier request left there
C28_YieldBeforeAck == [](C28_ReceivedState) /\ [][C28_AfterPullStep]_vars

\* the consumer holds the request of a must_return stage: nothing was
\* polled and the slot is still empty
C28_Witness ==
    /\ Received /\ sr.stage.must_return /\ ~sr.entity.exists
    /\ sr.polls = 0 /\ out = sr.req /\ context[sr.stage.context] = NoneV

\* the request in dispatch carries a right value and its stage is bound to
\* no context slot
Unbound ==
    /\ sr.pc \notin {"idle", "enter"}
    /\ sr.stage.context = NoSlot
    /\ ~sr.arg.isNone /\ sr.arg.right # NoRight

C29_UnboundState ==
    Unbound
        => /\ sr.yielded = 1 /\ sr.req = sr.arg
           /\ mode = "yielded" => out = sr.arg
           /\ sr.pc \in {"end", "done"}
           /\ sr.hash = NoHash /\ sr.cmp = "none" /\ ~sr.same_fingerprint
           /\ sr.lookups = 0 /\ sr.polls = 0 /\ sr.entity = NoEntity
           /\ ~sr.ctxset /\ sr.err = "none"

C29_UnboundStep ==
    (mode \in {"running", "yielded"} /\ Top.pc = "sink"
        /\ sr.stage.context = NoSlot)
        => UNCHANGED <<context, cache, lastList>>

\* C29: on a stage bound to no context slot sink_request yields the
\* request as it received it, once, and does nothing else: no fingerprint is
\* attached, the cache is not read even with use_cache, the remote store is
\* not asked even when overwrite is unset or must_return is set, and no
\* context slot changes
C29_NoContextStage == [](C29_UnboundState) /\ [][C29_UnboundStep]_vars

\* a create request on an unbound stage with use_cache and must_return set
\* and overwrite unset went out untouched
C29_Witness ==
    /\ Unbound /\ sr.pc = "done" /\ sr.arg.right.k = "create"
    /\ "sourceHash" \in DOMAIN sr.arg.right.d
    /\ sr.stage.use_cache /\ sr.stage.must_return /\ ~sr.stage.overwrite /\ ~force
    /\ sr.yielded = 1 /\ sr.req = sr.arg

\* the frames that run the Unity Catalog table node on a candidate
TableFrames ==
    {i \in Frames : /\ NodeOf(i).producer = "get_tables_name_and_type"
                    /\ stack[i].cand > 0
                    /\ stack[i].pc \in {"stage", "req", "sink", "cache", "clear",
                                        "recurse", "children"}}

C30_TableState ==
    \A i \in TableFrames :
        /\ context.table_data = ObjV(TableInfo(stack[i].cand))
        /\ (i = Len(stack) /\ stack[i].pc = "sink" /\ sr.arg.right # NoRight)
              => sr.arg.right.d = CreateDict(stack[i].cand,
                                             TableInfo(stack[i].cand).comment, TRUE)

C30_ProducerStep ==
    (Running /\ context'.table_data # context.table_data)
        => /\ Top.pc = "pull" /\ TopNode.producer = "get_tables_name_and_type"
           /\ Top.cand = 0 \/ Len(Top.ran) = Len(TopNode.stages)
           /\ sr = IdleSr
           /\ Len(stack') = Len(stack) /\ Top'.cand = Top.cand + 1
           /\ Top'.pc = "stage"
           /\ context'.table_data = ObjV(TableInfo(Top'.cand))

\* C30: while the stages of a table candidate run, context.table_data is
\* the table that get_tables_name_and_type stored just before it yielded
\* that candidate, so that the request yield_table builds is made of the
\* candidate's own table; table_data is overwritten only when the producer
\* is resumed, which happens after every stage of the previous candidate has
\* run
C30_TableDataOfCandidate == [](C30_TableState) /\ [][C30_ProducerStep]_vars

\* yield_table has built the request of the second table from the second
\* table's data
C30_Witness ==
    /\ Len(stack) \in TableFrames /\ Top.cand = 2 /\ Top.pc = "sink"
    /\ context.table_data = ObjV(TableInfo(2))
    /\ sr.arg = Either(FALSE, CreateRequest(2, <<"comment", 2>>, TRUE))
    /\ mode = "yielded" /\ out = sr.arg

====
